---- MODULE Spec2Model ----
(***************************************************************************)
(* The relay of server.js (the second, current definition of the three     *)
(* routes, lines 150-333): POST /api/whisper, POST /api/n8n, POST /api/tts. *)
(* One request is followed from the moment Express invokes its handler,    *)
(* through the outbound fetch, to the response sent to the caller.         *)
(*                                                                         *)
(* Texts (HTTP bodies and JavaScript strings) are sequences of tokens, so  *)
(* that JSON.parse, JSON.stringify and String.prototype.trim are computed  *)
(* rather than assumed.  The non-ASCII literals of the source are written  *)
(* in ASCII ("missing ..." for the Chinese messages).                       *)
(***************************************************************************)
EXTENDS Integers, Sequences, FiniteSets, TLC

VARIABLES env, req, pc, outbound, fetchResult, responses

vars == <<env, req, pc, outbound, fetchResult, responses>>

(***************************************************************************)
(* Bounds of the model                                                     *)
(***************************************************************************)
\* longest run of whitespace in a blank text, and widest padding of a body
MaxBlank == 2

(***************************************************************************)
(* Tokens and texts                                                        *)
(***************************************************************************)
\* punctuation of JSON: { } : ,
P(c) == [k |-> "p", v |-> c, n |-> 0, s |-> <<>>]
\* one whitespace character
WS == [k |-> "ws", v |-> " ", n |-> 0, s |-> <<>>]
\* a run of ordinary characters
W(w) == [k |-> "w", v |-> w, n |-> 0, s |-> <<>>]
\* a JSON number literal
N(i) == [k |-> "n", v |-> "", n |-> i, s |-> <<>>]
\* a JSON string literal whose content is the text t
S(t) == [k |-> "s", v |-> "", n |-> 0, s |-> t]

Blanks(i) == [j \in 1..i |-> WS]

(***************************************************************************)
(* JavaScript values                                                       *)
(***************************************************************************)
JUndef == [t |-> "undef", s |-> <<>>, n |-> 0, m |-> <<>>]
JStr(text) == [t |-> "str", s |-> text, n |-> 0, m |-> <<>>]
JNum(i) == [t |-> "num", s |-> <<>>, n |-> i, m |-> <<>>]
\* an object: its own properties in insertion order, each [key, val]
JObj(members) == [t |-> "obj", s |-> <<>>, n |-> 0, m |-> members]

Prop(key, val) == [key |-> <<W(key)>>, val |-> val]

\* ToBoolean: undefined, "" and 0 are falsy
Falsy(v) == \/ v.t = "undef"
            \/ v.t = "str" /\ v.s = <<>>
            \/ v.t = "num" /\ v.n = 0

\* a || b
OrElse(a, b) == IF Falsy(a) THEN b ELSE a

HasOwn(o, key) == \E i \in 1..Len(o.m) : o.m[i].key = key

\* o[key] on own properties (undefined when absent)
Get(o, key) ==
  IF o.t = "obj" /\ HasOwn(o, key)
  THEN o.m[CHOOSE i \in 1..Len(o.m) : o.m[i].key = key].val
  ELSE JUndef

\* o[key] = val: replaces in place, or appends
SetMember(ms, key, val) ==
  IF \E i \in 1..Len(ms) : ms[i].key = key
  THEN [i \in 1..Len(ms) |-> IF ms[i].key = key THEN [key |-> key, val |-> val] ELSE ms[i]]
  ELSE Append(ms, [key |-> key, val |-> val])

(***************************************************************************)
(* String.prototype.trim                                                   *)
(***************************************************************************)
RECURSIVE TrimLeft(_)
TrimLeft(t) == IF t # <<>> /\ Head(t).k = "ws" THEN TrimLeft(Tail(t)) ELSE t

RECURSIVE TrimRight(_)
TrimRight(t) ==
  IF t # <<>> /\ t[Len(t)].k = "ws" THEN TrimRight(SubSeq(t, 1, Len(t) - 1)) ELSE t

Trim(t) == TrimRight(TrimLeft(t))

(***************************************************************************)
(* JSON.stringify                                                          *)
(***************************************************************************)
RECURSIVE Stringify(_)
RECURSIVE StringifyMembers(_, _)

\* the members whose value is not undefined, comma separated
StringifyMembers(ms, first) ==
  IF ms = <<>> THEN <<>>
  ELSE IF Head(ms).val.t = "undef" THEN StringifyMembers(Tail(ms), first)
  ELSE (IF first THEN <<>> ELSE <<P(",")>>)
       \o <<S(Head(ms).key), P(":")>> \o Stringify(Head(ms).val)
       \o StringifyMembers(Tail(ms), FALSE)

Stringify(v) ==
  CASE v.t = "str" -> <<S(v.s)>>
    [] v.t = "num" -> <<N(v.n)>>
    [] v.t = "obj" -> <<P("{")>> \o StringifyMembers(v.m, TRUE) \o <<P("}")>>
    [] OTHER -> <<>>

(***************************************************************************)
(* JSON.parse: scalars and objects of scalars; whitespace between tokens   *)
(* is insignificant, anything else is a SyntaxError                        *)
(***************************************************************************)
StripWS(t) == SelectSeq(t, LAMBDA x : x.k # "ws")

IsScalarTok(x) == x.k \in {"s", "n"}
ScalarOf(x) == IF x.k = "s" THEN JStr(x.s) ELSE JNum(x.n)

ParseFail == [ok |-> FALSE, val |-> JUndef]
ParseOk(v) == [ok |-> TRUE, val |-> v]

RECURSIVE ParseMembers(_, _)
ParseMembers(ts, acc) ==
  IF Len(ts) >= 3 /\ ts[1].k = "s" /\ ts[2] = P(":") /\ IsScalarTok(ts[3])
  THEN LET acc2 == SetMember(acc, ts[1].s, ScalarOf(ts[3]))
       IN IF Len(ts) = 3 THEN ParseOk(JObj(acc2))
          ELSE IF ts[4] = P(",") THEN ParseMembers(SubSeq(ts, 5, Len(ts)), acc2)
          ELSE ParseFail
  ELSE ParseFail

Parse(text) ==
  LET ts == StripWS(text)
  IN IF Len(ts) = 1 /\ IsScalarTok(ts[1]) THEN ParseOk(ScalarOf(ts[1]))
     ELSE IF Len(ts) >= 2 /\ ts[1] = P("{") /\ ts[Len(ts)] = P("}")
          THEN IF Len(ts) = 2 THEN ParseOk(JObj(<<>>))
               ELSE ParseMembers(SubSeq(ts, 2, Len(ts) - 1), <<>>)
     ELSE ParseFail

(***************************************************************************)
(* Property lookup through Object.prototype, and String(v)                 *)
(***************************************************************************)
\* a native function value (truthy)
JFunc(name) == [t |-> "func", s |-> <<W(name)>>, n |-> 0, m |-> <<>>]

\* the function-valued members every object literal inherits
ObjectPrototype ==
  JObj(<<Prop("constructor", JFunc("Object")),
         Prop("toString", JFunc("toString")),
         Prop("valueOf", JFunc("valueOf")),
         Prop("hasOwnProperty", JFunc("hasOwnProperty"))>>)

\* o[key] as JavaScript evaluates it on an object literal
Lookup(o, key) == IF HasOwn(o, key) THEN Get(o, key) ELSE Get(ObjectPrototype, key)

\* String(v), as a template literal or a header value renders v
ToStr(v) ==
  CASE v.t = "str" -> v.s
    [] v.t = "num" -> <<N(v.n)>>
    [] v.t = "func" -> <<W("function ")>> \o v.s \o <<W("() { [native code] }")>>
    [] v.t = "obj" -> <<W("[object Object]")>>
    [] OTHER -> <<W("undefined")>>

\* destructuring default: applies to undefined only
Default(v, d) == IF v.t = "undef" THEN d ELSE v

Str(w) == JStr(<<W(w)>>)

(***************************************************************************)
(* Requests, outbound calls, upstream results, responses                   *)
(***************************************************************************)
NoFile == [present |-> FALSE, buffer |-> <<>>, mimetype |-> ""]

NoReq == [route |-> "none", file |-> NoFile, body |-> JUndef, xClientId |-> JUndef]

NoForm == [present |-> FALSE,
           file |-> [bytes |-> <<>>, type |-> "", filename |-> ""],
           model |-> ""]

NoError == [name |-> "", message |-> <<>>]

NoResult == [kind |-> "none", status |-> 0, ct |-> <<>>, body |-> <<>>,
             bodyErr |-> FALSE, err |-> NoError]

\* r.ok
Ok(r) == r.status \in 200..299

\* res.status(code).json(value)
ResJson(code, value) ==
  [status |-> code,
   headers |-> ("Content-Type" :> <<W("application/json; charset=utf-8")>>),
   body |-> Stringify(value)]

ErrorObj(msg) == JObj(<<Prop("error", msg)>>)

\* what an await of a body read settles to
Fulfilled(v) == [ok |-> TRUE, val |-> v, err |-> NoError]
Rejected(e) == [ok |-> FALSE, val |-> JUndef, err |-> e]

BodyStreamError == [name |-> "TypeError", message |-> <<W("terminated")>>]
JsonSyntaxError == [name |-> "SyntaxError", message |-> <<W("Unexpected end of JSON input")>>]
TrimTypeError == [name |-> "TypeError", message |-> <<W("text.trim is not a function")>>]

\* await r.text()
ReadText(r) == IF r.bodyErr THEN Rejected(BodyStreamError) ELSE Fulfilled(JStr(r.body))

\* await r.json()
ReadJson(r) ==
  IF r.bodyErr THEN Rejected(BodyStreamError)
  ELSE IF Parse(r.body).ok THEN Fulfilled(Parse(r.body).val)
  ELSE Rejected(JsonSyntaxError)

\* Buffer.from(await r.arrayBuffer())
ReadArrayBuffer(r) == IF r.bodyErr THEN Rejected(BodyStreamError) ELSE Fulfilled(JStr(r.body))

\* err?.message
MessageOf(e) == JStr(e.message)

\* String(err): the name alone when the message is empty
StringOfError(e) ==
  IF e.message = <<>> THEN Str(e.name) ELSE JStr(<<W(e.name), W(": ")>> \o e.message)

Sends(res) == [calls |-> <<>>, sends |-> <<res>>]
Calls(out) == [calls |-> <<out>>, sends |-> <<>>]

(***************************************************************************)
(* POST /api/whisper                                                       *)
(***************************************************************************)
WhisperCatch(e) ==
  ResJson(502, ErrorObj(OrElse(MessageOf(e), Str("Whisper API error"))))

WhisperFetch(e, rq) ==
  [url |-> "https://api.openai.com/v1/audio/transcriptions",
   method |-> "POST",
   headers |-> ("Authorization" :> <<W("Bearer "), W(e.OPENAI_API_KEY)>>),
   body |-> <<>>,
   form |-> [present |-> TRUE,
             file |-> [bytes |-> rq.file.buffer,
                       type |-> IF rq.file.mimetype = "" THEN "audio/webm"
                                ELSE rq.file.mimetype,
                       filename |-> "audio.webm"],
             model |-> "whisper-1"]]

\* the handler up to its first await
WhisperEntry(e, rq) ==
  IF e.OPENAI_API_KEY = ""
  THEN Sends(ResJson(500, ErrorObj(Str("missing OPENAI_API_KEY"))))
  ELSE IF ~rq.file.present \/ Len(rq.file.buffer) = 0
  THEN Sends(ResJson(400, ErrorObj(Str("missing audio file (field: file)"))))
  ELSE Calls(WhisperFetch(e, rq))

\* if (!r.ok): the upstream's status and error text
WhisperUpstreamErrorAs502(fr, errText) ==
  ResJson(502, ErrorObj(OrElse(errText, Str("Whisper API error"))))

WhisperUpstreamError(fr, errText) ==
  ResJson(fr.status, ErrorObj(OrElse(errText, Str("Whisper API error"))))

\* the upstream's JSON, parsed and sent again
WhisperSuccessWrapped(data) == ResJson(200, JObj(<<Prop("text", data)>>))

WhisperSuccess(data) == ResJson(200, data)

\* the handler once the fetch has settled
WhisperRespond(fr) ==
  IF fr.kind = "error" THEN WhisperCatch(fr.err)
  ELSE IF ~Ok(fr)
  THEN LET errText == ReadText(fr)
       IN IF ~errText.ok THEN WhisperCatch(errText.err)
          ELSE WhisperUpstreamError(fr, errText.val)
  ELSE LET data == ReadJson(fr)
       IN IF ~data.ok THEN WhisperCatch(data.err)
          ELSE WhisperSuccess(data.val)

\* the responses the continuation sends: every path returns after its one send
WhisperSettleFallsThrough(fr) ==
  IF fr.kind = "response" /\ ~Ok(fr)
  THEN <<WhisperRespond(fr), WhisperCatch(JsonSyntaxError)>>
  ELSE <<WhisperRespond(fr)>>

WhisperSettle(fr) == <<WhisperRespond(fr)>>

(***************************************************************************)
(* POST /api/n8n                                                           *)
(***************************************************************************)
N8nCatch(e) ==
  ResJson(502, JObj(<<Prop("error", Str("Upstream fetch failed")),
                      Prop("detail", OrElse(MessageOf(e), StringOfError(e)))>>))

N8nFetch(e, rq) ==
  [url |-> e.N8N_WEBHOOK_URL,
   method |-> "POST",
   headers |-> ("Content-Type" :> <<W("application/json")>>)
               @@ ("User-Agent" :> <<W("fourleaf-proxy/1.0")>>),
   body |-> Stringify(IF rq.body.t = "obj" THEN rq.body ELSE JObj(<<>>)),
   form |-> NoForm]

N8nEntryUnchecked(e, rq) == Calls(N8nFetch(e, rq))

N8nEntry(e, rq) ==
  IF e.N8N_WEBHOOK_URL = ""
  THEN Sends(ResJson(500, ErrorObj(Str("missing N8N_WEBHOOK_URL"))))
  ELSE Calls(N8nFetch(e, rq))

\* ct.includes('application/json')
IncludesJson(ct) == \E i \in 1..Len(ct) : ct[i] = W("application/json")

\* if (!r.ok): the upstream's status, and its text under "body"
N8nUpstreamError(fr, errText) ==
  ResJson(fr.status, JObj(<<Prop("error", Str("n8n error")),
                            Prop("status", JNum(fr.status)),
                            Prop("body", errText)>>))

N8nRespond(fr) ==
  IF fr.kind = "error" THEN N8nCatch(fr.err)
  ELSE IF ~Ok(fr)
  THEN LET errText == ReadText(fr)
       IN IF ~errText.ok THEN N8nCatch(errText.err)
          ELSE N8nUpstreamError(fr, errText.val)
  ELSE IF IncludesJson(fr.ct)
  THEN LET data == ReadJson(fr)
       IN IF ~data.ok THEN N8nCatch(data.err)
          ELSE ResJson(200, data.val)
  ELSE LET text == ReadText(fr)
       IN IF ~text.ok THEN N8nCatch(text.err)
          ELSE ResJson(200, JObj(<<Prop("text", text.val)>>))

N8nSettle(fr) == <<N8nRespond(fr)>>

(***************************************************************************)
(* POST /api/tts                                                           *)
(***************************************************************************)
TtsCatch(e) ==
  ResJson(500, ErrorObj(OrElse(MessageOf(e), Str("TTS proxy error"))))

\* const { text, voice = 'alloy', format = 'mp3' } = req.body || {}
TtsBody(rq) == IF rq.body.t = "obj" THEN rq.body ELSE JObj(<<>>)
TtsText(rq) == Get(TtsBody(rq), <<W("text")>>)
TtsVoice(rq) == Default(Get(TtsBody(rq), <<W("voice")>>), Str("alloy"))
TtsFormat(rq) == Default(Get(TtsBody(rq), <<W("format")>>), Str("mp3"))

TtsFetch(e, rq) ==
  [url |-> "https://api.openai.com/v1/audio/speech",
   method |-> "POST",
   headers |-> ("Authorization" :> <<W("Bearer "), W(e.OPENAI_API_KEY)>>)
               @@ ("Content-Type" :> <<W("application/json")>>),
   body |-> Stringify(JObj(<<Prop("model", Str("gpt-4o-mini-tts")),
                             Prop("input", TtsText(rq)),
                             Prop("voice", TtsVoice(rq)),
                             Prop("format", TtsFormat(rq))>>)),
   form |-> NoForm]

TextRejectedUntrimmed(text) == Falsy(text)

\* !text || !text.trim(), for a text that has a trim method
TextRejected(text) == Falsy(text) \/ Falsy(JStr(Trim(text.s)))

TtsEntry(e, rq) ==
  IF e.OPENAI_API_KEY = ""
  THEN Sends(ResJson(500, ErrorObj(Str("missing OPENAI_API_KEY"))))
  ELSE IF ~Falsy(TtsText(rq)) /\ TtsText(rq).t # "str"
  THEN Sends(TtsCatch(TrimTypeError))
  ELSE IF TextRejected(TtsText(rq))
  THEN Sends(ResJson(400, ErrorObj(Str("missing text"))))
  ELSE Calls(TtsFetch(e, rq))

contentTypes ==
  JObj(<<Prop("mp3", Str("audio/mpeg")),
         Prop("opus", Str("audio/ogg; codecs=opus")),
         Prop("aac", Str("audio/aac")),
         Prop("flac", Str("audio/flac")),
         Prop("wav", Str("audio/wav")),
         Prop("pcm", Str("audio/l16"))>>)

\* contentTypes[format] || 'audio/mpeg', as setHeader renders it
ContentTypeHeader(format) ==
  ToStr(OrElse(Lookup(contentTypes, ToStr(format)), Str("audio/mpeg")))

\* `inline; filename="speech.${format}"`
ContentDispositionHeader(format) ==
  <<W("inline; filename=\"speech.")>> \o ToStr(format) \o <<W("\"")>>

\* if (!r.ok): the upstream's status and error text
TtsUpstreamError(fr, errText) ==
  ResJson(fr.status, ErrorObj(OrElse(errText, Str("TTS error"))))

TtsRespond(rq, fr) ==
  IF fr.kind = "error" THEN TtsCatch(fr.err)
  ELSE IF ~Ok(fr)
  THEN LET errText == ReadText(fr)
       IN IF ~errText.ok THEN TtsCatch(errText.err)
          ELSE TtsUpstreamError(fr, errText.val)
  ELSE LET buf == ReadArrayBuffer(fr)
       IN IF ~buf.ok THEN TtsCatch(buf.err)
          ELSE [status |-> 200,
                headers |-> ("Content-Type" :> ContentTypeHeader(TtsFormat(rq)))
                            @@ ("Content-Disposition" :> ContentDispositionHeader(TtsFormat(rq))),
                body |-> buf.val.s]

TtsSettle(rq, fr) == <<TtsRespond(rq, fr)>>

(***************************************************************************)
(* Inputs: the environment, the requests and the upstream's behaviours     *)
(***************************************************************************)
Environments ==
  [OPENAI_API_KEY : {"", "sk-test"}, N8N_WEBHOOK_URL : {"", "https://n8n.example/webhook"}]

Files ==
  {NoFile,
   [present |-> TRUE, buffer |-> <<>>, mimetype |-> "audio/webm"],
   [present |-> TRUE, buffer |-> <<82, 73, 70>>, mimetype |-> "audio/wav"],
   [present |-> TRUE, buffer |-> <<82, 73, 70>>, mimetype |-> ""]}

N8nBodies ==
  {JUndef,
   JObj(<<>>),
   JObj(<<Prop("msg", Str("hi"))>>),
   JObj(<<Prop("msg", Str("hi")), Prop("clientId", Str("u9"))>>)}

ClientIdHeaders == {JUndef, Str("u123")}

TtsTexts ==
  {JUndef, JNum(0), JNum(7), Str("hi"), JStr(<<WS, W("hi"), WS>>)}
  \cup {JStr(Blanks(i)) : i \in 0..MaxBlank}

TtsVoices == {JUndef, Str("nova")}

TtsFormats ==
  {JUndef} \cup {Str(f) : f \in {"mp3", "opus", "aac", "flac", "wav", "pcm", "xyz", "constructor"}}

\* the object express.json() parses: absent members are not properties
TtsObject(text, voice, format) ==
  JObj(SelectSeq(<<Prop("text", text), Prop("voice", voice), Prop("format", format)>>,
                 LAMBDA p : p.val.t # "undef"))

\* every text with every format, and every text with every voice
TtsBodies ==
  {JUndef}
  \cup {TtsObject(t, JUndef, f) : t \in TtsTexts, f \in TtsFormats}
  \cup {TtsObject(t, v, JUndef) : t \in TtsTexts, v \in TtsVoices}

HelloJson(pad) ==
  <<P("{")>> \o Blanks(pad) \o <<S(<<W("text")>>), P(":")>> \o Blanks(pad)
  \o <<S(<<W("hello")>>), P("}")>>

UpstreamBodies ==
  {<<>>, <<W("OK")>>, <<W("Service Unavailable")>>, <<W("ID3"), N(255), WS, N(0)>>,
   <<P("{"), S(<<W("text")>>)>>}
  \cup {HelloJson(i) : i \in 0..MaxBlank}

UpstreamStatuses == {200, 201, 503}

UpstreamContentTypes ==
  {<<>>, <<W("text/plain")>>, <<W("application/json")>>,
   <<W("application/json"), W("; charset=utf-8")>>}

UpstreamResponses ==
  {[kind |-> "response", status |-> st, ct |-> ct, body |-> b, bodyErr |-> be, err |-> NoError] :
     st \in UpstreamStatuses, ct \in UpstreamContentTypes, b \in UpstreamBodies, be \in BOOLEAN}

FetchErrors ==
  {[name |-> "TypeError", message |-> <<W("fetch failed")>>],
   [name |-> "TypeError", message |-> <<>>]}

(***************************************************************************)
(* The state machine of one request                                        *)
(***************************************************************************)
Init ==
  /\ env \in Environments
  /\ req = NoReq
  /\ pc = "idle"
  /\ outbound = <<>>
  /\ fetchResult = NoResult
  /\ responses = <<>>

\* Express invokes the handler, which runs to its first await or its return
Begin(rq, d) ==
  /\ pc = "idle"
  /\ req' = rq
  /\ outbound' = d.calls
  /\ responses' = d.sends
  /\ pc' = IF d.calls = <<>> THEN "done" ELSE "fetch"
  /\ UNCHANGED <<env, fetchResult>>

WhisperStart ==
  \E f \in Files :
    LET rq == [route |-> "/api/whisper", file |-> f, body |-> JUndef, xClientId |-> JUndef]
    IN Begin(rq, WhisperEntry(env, rq))

N8nStart ==
  \E b \in N8nBodies, h \in ClientIdHeaders :
    LET rq == [route |-> "/api/n8n", file |-> NoFile, body |-> b, xClientId |-> h]
    IN Begin(rq, N8nEntry(env, rq))

TtsStart ==
  \E b \in TtsBodies :
    LET rq == [route |-> "/api/tts", file |-> NoFile, body |-> b, xClientId |-> JUndef]
    IN Begin(rq, TtsEntry(env, rq))

\* the upstream answers: the fetch promise fulfils
FetchResolves ==
  /\ pc = "fetch"
  /\ \E r \in UpstreamResponses : fetchResult' = r
  /\ pc' = "resume"
  /\ UNCHANGED <<env, req, outbound, responses>>

\* the call fails in transport: the fetch promise rejects
FetchRejects ==
  /\ pc = "fetch"
  /\ \E e \in FetchErrors :
       fetchResult' = [NoResult EXCEPT !.kind = "error", !.err = e]
  /\ pc' = "resume"
  /\ UNCHANGED <<env, req, outbound, responses>>

\* the handler continues after its await, to its return
Resume(route, sent) ==
  /\ pc = "resume"
  /\ req.route = route
  /\ responses' = responses \o sent
  /\ pc' = "done"
  /\ UNCHANGED <<env, req, outbound, fetchResult>>

WhisperResume == Resume("/api/whisper", WhisperSettle(fetchResult))

N8nResume == Resume("/api/n8n", N8nSettle(fetchResult))

TtsResume == Resume("/api/tts", TtsSettle(req, fetchResult))

\* the exchange is over; the server waits for the next request
NextRequest ==
  /\ pc = "done"
  /\ pc' = "idle"
  /\ req' = NoReq
  /\ outbound' = <<>>
  /\ fetchResult' = NoResult
  /\ responses' = <<>>
  /\ UNCHANGED env

Next ==
  \/ WhisperStart
  \/ N8nStart
  \/ TtsStart
  \/ FetchResolves
  \/ FetchRejects
  \/ WhisperResume
  \/ N8nResume
  \/ TtsResume
  \/ NextRequest

Spec == Init /\ [][Next]_vars

\* the event loop runs a continuation whose promise has settled
FairSpec == Spec /\ WF_vars(WhisperResume \/ N8nResume \/ TtsResume)

(***************************************************************************)
(* What the caller and the upstream observe                                *)
(***************************************************************************)
Answered == pc = "done" /\ Len(responses) = 1

Response == responses[1]

\* the JSON value a client reads from a response body
JsonOf(res) == Parse(res.body)

\* a JSON body of the shape {error: ...}
StructuredError(res) ==
  /\ JsonOf(res).ok
  /\ JsonOf(res).val.t = "obj"
  /\ HasOwn(JsonOf(res).val, <<W("error")>>)

\* the text a occurs in the text b
Infix(a, b) == \E i \in 0..(Len(b) - Len(a)) : SubSeq(b, i + 1, i + Len(a)) = a

\* some string member of the response's JSON object satisfies Q
SomeStringMember(res, Q(_)) ==
  /\ JsonOf(res).ok
  /\ JsonOf(res).val.t = "obj"
  /\ \E i \in 1..Len(JsonOf(res).val.m) :
       /\ JsonOf(res).val.m[i].val.t = "str"
       /\ Q(JsonOf(res).val.m[i].val.s)

ConfigAbsent(rq) ==
  \/ rq.route \in {"/api/whisper", "/api/tts"} /\ env.OPENAI_API_KEY = ""
  \/ rq.route = "/api/n8n" /\ env.N8N_WEBHOOK_URL = ""

\* the request lacks what its route requires (the webhook requires nothing)
MissingInput(rq) ==
  \/ rq.route = "/api/whisper" /\ ~rq.file.present
  \/ /\ rq.route = "/api/tts"
     /\ \/ TtsText(rq).t = "undef"
        \/ TtsText(rq).t = "str" /\ Trim(TtsText(rq).s) = <<>>

\* the upstream answered and its body could be read to the end
UpstreamCompleted == fetchResult.kind = "response" /\ ~fetchResult.bodyErr

(***************************************************************************)
(* C1                                                                      *)
(***************************************************************************)
Rejected400 ==
  /\ Answered
  /\ Response.status \in 400..499
  /\ StructuredError(Response)
  /\ outbound = <<>>

\* C1 as stated: every request missing its required input is answered with a
\* 400-class {error} response and no outbound call is made.
C1_MissingInputAlways400 == MissingInput(req) => Rejected400

\* C1 amended: when the configuration value of the route is present, every
\* request missing its required input (no file for /api/whisper, missing or
\* blank text for /api/tts) is answered with a 400-class {error} response and
\* no outbound call is made.
C1_MissingInputRejected == MissingInput(req) /\ ~ConfigAbsent(req) => Rejected400

C1_Witness ==
  /\ req.route = "/api/tts"
  /\ TtsText(req) = JStr(Blanks(MaxBlank))
  /\ ~ConfigAbsent(req)
  /\ Rejected400

(***************************************************************************)
(* C2                                                                      *)
(***************************************************************************)
\* C2: when the configuration value a route needs is absent, every request to
\* that route is answered with a 500-class {error} response and no outbound
\* call is made.
C2_ConfigAbsentRejected ==
  ConfigAbsent(req) =>
    /\ Answered
    /\ Response.status \in 500..599
    /\ StructuredError(Response)
    /\ outbound = <<>>

C2_Witness ==
  /\ req.route = "/api/n8n"
  /\ req.body = JObj(<<Prop("msg", Str("hi"))>>)
  /\ env.N8N_WEBHOOK_URL = ""
  /\ Answered
  /\ Response.status = 500

(***************************************************************************)
(* C3                                                                      *)
(***************************************************************************)
\* body field, else X-Client-Id header, else "anon"
ResolvedClientId(rq) ==
  IF rq.body.t = "obj" /\ HasOwn(rq.body, <<W("clientId")>>)
  THEN Get(rq.body, <<W("clientId")>>)
  ELSE IF rq.xClientId.t # "undef" THEN rq.xClientId
  ELSE Str("anon")

\* C3: the outbound call of the webhook route carries the resolved client
\* identifier (body field, else X-Client-Id header, else "anon") both as the
\* clientId member of the forwarded JSON body and as a custom request header.
C3_ClientIdForwarded ==
  req.route = "/api/n8n" /\ outbound # <<>> =>
    /\ Parse(outbound[1].body).ok
    /\ Get(Parse(outbound[1].body).val, <<W("clientId")>>) = ResolvedClientId(req)
    /\ "X-Client-Id" \in DOMAIN outbound[1].headers
    /\ outbound[1].headers["X-Client-Id"] = ToStr(ResolvedClientId(req))

(***************************************************************************)
(* C4                                                                      *)
(***************************************************************************)
ContainsUpstreamText(t) == Infix(fetchResult.body, t)

EqualsUpstreamText(t) == t = fetchResult.body

\* C4: on every route, when the upstream answers with a non-success status,
\* the caller's response has that same status and a member of its JSON body
\* contains the upstream's body text, unmodified (equal to it whenever the
\* upstream's text is not empty).
C4_UpstreamErrorRelayed ==
  pc = "done" /\ UpstreamCompleted /\ ~Ok(fetchResult) =>
    /\ Len(responses) = 1
    /\ Response.status = fetchResult.status
    /\ SomeStringMember(Response, ContainsUpstreamText)
    /\ fetchResult.body # <<>> => SomeStringMember(Response, EqualsUpstreamText)

C4_Witness ==
  /\ pc = "done"
  /\ req.route = "/api/tts"
  /\ UpstreamCompleted
  /\ fetchResult.status = 503
  /\ fetchResult.body = <<W("Service Unavailable")>>
  /\ Response.status = 503
  /\ Get(JsonOf(Response).val, <<W("error")>>) = Str("Service Unavailable")

(***************************************************************************)
(* C5                                                                      *)
(***************************************************************************)
\* C5: on the webhook route a successful upstream response is translated by
\* its content type alone: a JSON content type passes the upstream's (JSON)
\* body through with the upstream's status code; any other content type wraps
\* the raw text as {"text": <raw text>}.
C5_TranslationByContentType ==
  pc = "done" /\ req.route = "/api/n8n" /\ UpstreamCompleted /\ Ok(fetchResult) =>
    /\ Len(responses) = 1
    /\ IF IncludesJson(fetchResult.ct)
       THEN Parse(fetchResult.body).ok =>
              /\ Response.status = fetchResult.status
              /\ JsonOf(Response) = Parse(fetchResult.body)
       ELSE JsonOf(Response) = ParseOk(JObj(<<Prop("text", JStr(fetchResult.body))>>))

(***************************************************************************)
(* C6                                                                      *)
(***************************************************************************)
\* C6: on the webhook route a successful upstream response with an empty body
\* is relayed as a normal response whatever its content type, never as a
\* gateway failure.
C6_EmptyBodyTolerated ==
  /\ pc = "done"
  /\ req.route = "/api/n8n"
  /\ UpstreamCompleted
  /\ Ok(fetchResult)
  /\ fetchResult.body = <<>>
  => /\ Len(responses) = 1
     /\ Response.status \in 200..299

(***************************************************************************)
(* C7                                                                      *)
(***************************************************************************)
\* the fixed mapping of the requested format, MPEG audio for any other
MimeOf(format) ==
  CASE format = <<W("mp3")>> -> <<W("audio/mpeg")>>
    [] format = <<W("wav")>> -> <<W("audio/wav")>>
    [] format = <<W("aac")>> -> <<W("audio/aac")>>
    [] format = <<W("flac")>> -> <<W("audio/flac")>>
    [] format = <<W("opus")>> -> <<W("audio/ogg; codecs=opus")>>
    [] format = <<W("pcm")>> -> <<W("audio/l16")>>
    [] OTHER -> <<W("audio/mpeg")>>

\* the format the request asks for: mp3 when omitted
RequestedFormat(rq) ==
  IF HasOwn(TtsBody(rq), <<W("format")>>) THEN Get(TtsBody(rq), <<W("format")>>).s
  ELSE <<W("mp3")>>

\* C7: on the synthesis route every valid request whose upstream call succeeds
\* is answered with status 200, the upstream's bytes, the Content-Type the
\* fixed mapping gives the requested format (audio/mpeg for an unrecognized
\* one, mp3 when omitted) and Content-Disposition inline, speech.<format>.
C7_AudioRelayed ==
  /\ pc = "done"
  /\ req.route = "/api/tts"
  /\ UpstreamCompleted
  /\ Ok(fetchResult)
  => /\ Len(responses) = 1
     /\ Response.status = 200
     /\ Response.body = fetchResult.body
     /\ Response.headers["Content-Type"] = MimeOf(RequestedFormat(req))
     /\ "Content-Disposition" \in DOMAIN Response.headers
     /\ Response.headers["Content-Disposition"]
          = <<W("inline; filename=\"speech.")>> \o RequestedFormat(req) \o <<W("\"")>>

(***************************************************************************)
(* C8                                                                      *)
(***************************************************************************)
ContainsErrorMessage(t) == Infix(fetchResult.err.message, t)

\* C8: on every route a transport failure of the outbound call is answered
\* with a structured JSON error carrying the underlying message, with the
\* gateway-failure status, the same on /api/tts as on the other two routes.
C8_TransportFailureIsGatewayFailure ==
  pc = "done" /\ fetchResult.kind = "error" =>
    /\ Len(responses) = 1
    /\ StructuredError(Response)
    /\ SomeStringMember(Response, ContainsErrorMessage)
    /\ Response.status = WhisperCatch(fetchResult.err).status
    /\ Response.status = N8nCatch(fetchResult.err).status

(***************************************************************************)
(* C9                                                                      *)
(***************************************************************************)
\* C9: on the transcription route, with a valid attachment and the credential
\* configured, a successful upstream response with a JSON body is answered
\* with status 200 and a body that is the same JSON value.
C9_TranscriptPassedThrough ==
  /\ pc = "done"
  /\ req.route = "/api/whisper"
  /\ UpstreamCompleted
  /\ Ok(fetchResult)
  /\ Parse(fetchResult.body).ok
  => /\ Len(responses) = 1
     /\ Response.status = 200
     /\ JsonOf(Response) = Parse(fetchResult.body)

C9_Witness ==
  /\ pc = "done"
  /\ req.route = "/api/whisper"
  /\ UpstreamCompleted
  /\ fetchResult.status = 200
  /\ fetchResult.body = HelloJson(1)
  /\ Response.status = 200
  /\ JsonOf(Response) = ParseOk(JObj(<<Prop("text", Str("hello"))>>))
  /\ Response.body # fetchResult.body

(***************************************************************************)
(* C10                                                                     *)
(***************************************************************************)
OneCallOneResponse ==
  /\ Len(outbound) <= 1
  /\ Len(responses) <= 1
  /\ pc = "done" => Len(responses) = 1
  /\ pc \in {"fetch", "resume"} => Len(outbound) = 1 /\ responses = <<>>

\* C10: for every request and every outcome of the upstream, the handler makes
\* at most one outbound call and sends exactly one response: none is sent
\* while the call is pending, the step that follows the call's return or throw
\* sends exactly one, that step is always taken, and what was sent or called
\* is never added to afterwards.
C10_ExactlyOneResponse ==
  /\ []OneCallOneResponse
  /\ [][pc = "resume" => Len(responses') = 1 /\ outbound' = outbound]_vars
  /\ [][pc = "done" /\ pc' # "idle" => responses' = responses /\ outbound' = outbound]_vars
  /\ (pc = "resume") ~> (pc = "done" /\ Len(responses) = 1)

C10_Witness ==
  /\ pc = "done"
  /\ fetchResult.kind = "response"
  /\ Ok(fetchResult)
  /\ req.route = "/api/n8n"
  /\ IncludesJson(fetchResult.ct)
  /\ ~Parse(fetchResult.body).ok
  /\ Len(outbound) = 1
  /\ Len(responses) = 1

====
